---- MODULE Spec2Model ----
(***************************************************************************)
(* Model of crates/drag_and_drop/src/drag_and_drop.rs: the global          *)
(* DragAndDrop<V> store (currently_dragged, containers), its operations    *)
(* (register_container, currently_dragged<T>, dragging, render,            *)
(* cancel_dragging, finish_dragging, notify_containers_for_window) and     *)
(* the deferred release callbacks that render() attaches to the overlay    *)
(* and to the capture element.                                             *)
(*                                                                         *)
(* The UI framework (gpui) is the environment: it delivers drag and        *)
(* mouse-up events, runs deferred callbacks after the dispatch pass,       *)
(* re-renders notified views before the next input event, and drops       *)
(* views.                                                                  *)
(***************************************************************************)
EXTENDS Integers, Sequences, FiniteSets, TLC

\* ---------------------------------------------------------------- bounds
\* the MouseDrag events the environment delivers are numbered 0..MaxEvent
MaxEvent == 1
\* the views of type V are numbered 1..MaxViews
MaxViews == 3

\* ------------------------------------------------------------ value sets
\* two windows: the window of a session and another one
Windows == {1, 2}

Views == 1..MaxViews

\* MouseDrag events: position, prev_mouse_position, region (origin, size);
\* every event has its own position, region and origin - prev_mouse_position
Events == {[position |-> <<10 * i, 10 * i + 1>>,
            prev_mouse_position |-> <<10 * i - 1, 10 * i>>,
            region |-> [origin |-> <<5 * i, 3>>, size |-> <<4 + i, 2>>]]
           : i \in 0..MaxEvent}

\* runtime types (TypeId) of payloads
Types == {"A", "B"}

\* as_draggable(payload, render): each draggable element owns one Rc payload
\* and one Rc render closure over the payload's type; one element per type
Draggables == {[payload |-> [id |-> T, type |-> T], render |-> T] : T \in Types}

\* Option::None
None == [tag |-> "None"]

\* State::Canceled
Canceled == [tag |-> "Canceled"]

\* Vector2F subtraction and addition
VSub(a, b) == <<a[1] - b[1], a[2] - b[2]>>

VAdd(a, b) == <<a[1] + b[1], a[2] + b[2]>>

\* container.window_id(): odd views live in window 1, even views in window 2
ViewWindow(c) == IF c % 2 = 1 THEN 1 ELSE 2

VARIABLES
    currently_dragged, \* Option<State<V>>: None, Canceled or a Dragging record
    containers,        \* HashSet<WeakViewHandle<V>>
    alive,             \* views whose weak handle still upgrades
    rendered,          \* per view: the element its last render() call returned
    invalidated,       \* views notified (cx.notify) and not yet re-rendered
    deferred,          \* callbacks queued with cx.defer, in order
    pass,              \* "none", "dispatch" (release being delivered), "flush"
    op,                \* the operation the last step performed, with its inputs
    notified,          \* notification passes made by the last step
    first_event,       \* the MouseDrag event that created the live session
    last_event,        \* the latest MouseDrag event the live session took
    release,           \* bookkeeping of the release being processed
    canceled_drag,     \* while Canceled: the window of the canceled session and
                       \* the views the cancel notified; None otherwise
    notify_saw         \* whether the last step's pass ran on the store as the
                       \* step found it ("unchanged") or as the step had
                       \* already changed it ("changed"); "-" without a pass

vars == <<currently_dragged, containers, alive, rendered, invalidated, deferred,
          pass, op, notified, first_event, last_event, release, canceled_drag,
          notify_saw>>

IsDragging(state) == state.tag = "Dragging"

\* ------------------------------------------------- pure parts of the code

\* notify_containers_for_window keeping the handles that no longer upgrade
Retained_All(cs, live) == cs

\* notify_containers_for_window: the handles retain() keeps
Retained(cs, live) == {c \in cs : c \in live}

\* notify_containers_for_window: the views that get cx.notify()
NotifiedViews(cs, live, window_id) ==
    {c \in cs : c \in live /\ ViewWindow(c) = window_id}

\* one notification pass as seen from outside
NotifyPass(cs, live, window_id) ==
    [window_id |-> window_id, views |-> NotifiedViews(cs, live, window_id)]

\* currently_dragged<T> without the window comparison of lines 77-79
CurrentlyDragged_AnyWindow(state, T, window_id) ==
    IF IsDragging(state) /\ state.payload.type = T
    THEN [tag |-> "Some", position |-> state.position, payload |-> state.payload]
    ELSE None

\* currently_dragged<T>(window_id): None or Some((position, payload))
CurrentlyDragged(state, T, window_id) ==
    IF state.tag # "None"
    THEN IF IsDragging(state)
         THEN IF window_id # state.window_id
              THEN None
              ELSE IF state.payload.type = T
                   THEN [tag |-> "Some", position |-> state.position,
                         payload |-> state.payload]
                   ELSE None
         ELSE None
    ELSE None

\* dragging() taking the region from every event, not from the session
DraggingRegion_FromEvent(state, event) ==
    <<VSub(event.region.origin, event.prev_mouse_position), event.region>>

\* dragging(): the (region_offset, region) pair of lines 106-118
DraggingRegion(state, event) ==
    IF IsDragging(state)
    THEN <<state.region_offset, state.region>>
    ELSE <<VSub(event.region.origin, event.prev_mouse_position), event.region>>

\* dragging() keeping the render adapter of the session it continues,
\* instead of building a new one at line 126
DraggingState_KeepRender(state, window_id, event, payload, render_fn) ==
    IF state = Canceled
    THEN state
    ELSE LET rr == DraggingRegion(state, event)
         IN [tag |-> "Dragging",
             window_id |-> window_id,
             region_offset |-> rr[1],
             region |-> rr[2],
             position |-> event.position,
             payload |-> payload,
             render |-> IF IsDragging(state) THEN state.render
                        ELSE [fn |-> render_fn, T |-> payload.type]]

\* dragging() without the early return of lines 102-104
DraggingState_NoCanceledCheck(state, window_id, event, payload, render_fn) ==
    LET rr == DraggingRegion(state, event)
    IN [tag |-> "Dragging",
        window_id |-> window_id,
        region_offset |-> rr[1],
        region |-> rr[2],
        position |-> event.position,
        payload |-> payload,
        render |-> [fn |-> render_fn, T |-> payload.type]]

\* dragging(): the value of currently_dragged after the call
DraggingState(state, window_id, event, payload, render_fn) ==
    IF state = Canceled
    THEN state
    ELSE LET rr == DraggingRegion(state, event)
         IN [tag |-> "Dragging",
             window_id |-> window_id,
             region_offset |-> rr[1],
             region |-> rr[2],
             position |-> event.position,
             payload |-> payload,
             render |-> [fn |-> render_fn, T |-> payload.type]]

\* render() returning nothing for State::Canceled, without lines 189-217
RenderOutput_NoCapture(state, window_id) ==
    IF IsDragging(state) /\ window_id = state.window_id
    THEN [tag |-> "Some", kind |-> "overlay",
          anchor |-> VAdd(state.position, state.region_offset),
          width |-> state.region.size[1],
          height |-> state.region.size[2],
          content |-> [fn |-> state.render.fn, payload |-> state.payload]]
    ELSE None

\* render() anchoring the overlay at the pointer, without line 153
RenderOutput_AtPointer(state, window_id) ==
    IF state.tag = "None"
    THEN None
    ELSE IF IsDragging(state)
         THEN IF window_id # state.window_id
              THEN None
              ELSE [tag |-> "Some", kind |-> "overlay",
                    anchor |-> state.position,
                    width |-> state.region.size[1],
                    height |-> state.region.size[2],
                    content |-> [fn |-> state.render.fn,
                                 payload |-> state.payload]]
         ELSE [tag |-> "Some", kind |-> "capture", width |-> 0, height |-> 0]

\* render(): the element returned to a view of window window_id; None, the
\* overlay (anchor, constrained width and height, the render closure applied
\* to the payload) or the zero-size capture element
RenderOutput(state, window_id) ==
    IF state.tag = "None"
    THEN None
    ELSE IF IsDragging(state)
         THEN IF window_id # state.window_id
              THEN None
              ELSE [tag |-> "Some", kind |-> "overlay",
                    anchor |-> VAdd(state.position, state.region_offset),
                    width |-> state.region.size[1],
                    height |-> state.region.size[2],
                    content |-> [fn |-> state.render.fn,
                                 payload |-> state.payload]]
         ELSE [tag |-> "Some", kind |-> "capture", width |-> 0, height |-> 0]

\* render(): the kind of element returned to a view of window window_id
RenderKind(state, window_id) ==
    LET r == RenderOutput(state, window_id)
    IN IF r = None THEN "none" ELSE r.kind

\* the callback an element defers on on_up / on_up_out
Callback(kind) == IF kind = "overlay" THEN "finish" ELSE "clear"

\* cancel_dragging<P> without the payload.is::<P>() test of line 227
CancelApplies_AnyType(state, P) == IsDragging(state)

\* cancel_dragging<P>: does the call take effect
CancelApplies(state, P) == IsDragging(state) /\ state.payload.type = P

\* finish_dragging without the notification of line 238
FinishNotifies_Never(state) == 0

\* finish_dragging: the window notified, 0 when none (take() matched Dragging)
FinishNotifies(state) == IF IsDragging(state) THEN state.window_id ELSE 0

\* finish_dragging matching on State::Dragging instead of take()
FinishState_OnlyDragging(state) == IF IsDragging(state) THEN None ELSE state

\* finish_dragging: currently_dragged after take()
FinishState(state) == None

\* the capture element's callback without the assignment of lines 203, 211
ClearState_Keep(state) == state

\* the capture element's deferred callback: this.currently_dragged = None
ClearState(state) == None

\* dragging() notifying after it has stored the new state
DraggingNotifyStore_After(before, after) == after

\* dragging(): the store the notification pass of line 100 runs on, given
\* the state before the call and the one the call stores (lines 120-129)
DraggingNotifyStore(before, after) == before

\* cancel_dragging(): the store the pass of line 231 runs on; line 229 has
\* stored Canceled by then
CancelNotifyStore(before, after) == after

\* finish_dragging(): the store the pass of line 238 runs on; take() of line
\* 237 has emptied it by then
FinishNotifyStore(before, after) == after

\* on_up / on_up_out running their store update at once, without cx.defer
OnUpState_Immediate(state, callbacks) ==
    IF callbacks = <<>> THEN state ELSE None

\* on_up / on_up_out: the store after the handlers of a release have run;
\* they only queue their update with cx.defer (lines 161, 170, 200, 208)
OnUpState(state, callbacks) == state

\* register_container assigning the registry instead of inserting into it
Inserted_Replacing(cs, handle) == {handle}

\* register_container: the registry after self.containers.insert(handle);
\* handles of the same view are equal
Inserted(cs, handle) == cs \cup {handle}

\* ---------------------------------------------------------------- Init
NoRelease == [tag |-> "None", session_window |-> 0, window_id |-> 0,
              queued |-> <<>>, live |-> {}, passes |-> <<>>]

Init ==
    /\ currently_dragged = None
    /\ containers = {}
    /\ alive = Views
    /\ rendered = [c \in Views |-> "none"]
    /\ invalidated = {}
    /\ deferred = <<>>
    /\ pass = "none"
    /\ op = [name |-> "init"]
    /\ notified = <<>>
    /\ first_event = None
    /\ last_event = None
    /\ release = NoRelease
    /\ canceled_drag = None
    /\ notify_saw = "-"

\* no input event is delivered while a release is being processed
Settled == pass = "none"

\* the framework re-renders the notified views after the effects are flushed
\* and before the next input event; each calls render() on the state it finds
Rerendered(elements, views, state) ==
    [c \in Views |-> IF c \in views THEN RenderKind(state, ViewWindow(c))
                     ELSE elements[c]]

\* a notification pass made by a step: the registry is pruned and the
\* notified views re-render, at once outside a release, else at its end
Notify(window_id) ==
    /\ containers' = Retained(containers, alive)
    /\ notified' = <<NotifyPass(containers, alive, window_id)>>
    /\ IF pass = "none"
       THEN /\ rendered' = Rerendered(rendered,
                                      NotifiedViews(containers, alive, window_id),
                                      currently_dragged')
            /\ UNCHANGED <<invalidated, release>>
       ELSE /\ invalidated' = invalidated \cup
                              NotifiedViews(containers, alive, window_id)
            /\ release' = [release EXCEPT !.passes =
                              Append(release.passes,
                                     NotifyPass(containers, alive, window_id))]
            /\ UNCHANGED rendered

\* how the store a pass ran on compares with the store the step found
Saw(seen) ==
    notify_saw' = IF seen = currently_dragged THEN "unchanged" ELSE "changed"

NoNotify ==
    /\ notified' = <<>>
    /\ notify_saw' = "-"
    /\ UNCHANGED <<containers, invalidated, rendered, release>>

\* the events of the live session: none while no session is live, the
\* creating event from the step that makes the state Dragging, the latest
\* event from every dragging() call the session takes
SessionEvents(event) ==
    /\ IF IsDragging(currently_dragged')
       THEN /\ first_event' = IF IsDragging(currently_dragged)
                              THEN first_event ELSE event
            /\ last_event' = event
       ELSE /\ first_event' = None
            /\ last_event' = None
    /\ canceled_drag' =
          IF currently_dragged' # Canceled THEN None
          ELSE IF currently_dragged = Canceled THEN canceled_drag
          ELSE [window_id |-> currently_dragged.window_id,
                views |-> {c \in containers \cap alive :
                             ViewWindow(c) = currently_dragged.window_id}]

\* -------------------------------------------------------------- actions

\* register_container(handle)
register_container(handle) ==
    /\ Settled
    /\ containers' = Inserted(containers, handle)
    /\ op' = [name |-> "register_container", handle |-> handle]
    /\ notified' = <<>>
    /\ notify_saw' = "-"
    /\ UNCHANGED <<currently_dragged, alive, rendered, invalidated, deferred,
                   pass, first_event, last_event, release, canceled_drag>>

\* dragging(event, payload, cx, render) with cx.window_id() = window_id
dragging(window_id, event, payload, render_fn) ==
    /\ Settled
    /\ currently_dragged' =
           DraggingState(currently_dragged, window_id, event, payload, render_fn)
    /\ Notify(window_id)
    /\ Saw(DraggingNotifyStore(currently_dragged, currently_dragged'))
    /\ SessionEvents(event)
    /\ op' = [name |-> "dragging", window_id |-> window_id,
              position |-> event.position]
    /\ UNCHANGED <<alive, deferred, pass>>

\* render(cx) called by a live registered container that re-renders for a
\* reason of its own
render(view) ==
    /\ Settled
    /\ view \in alive
    /\ view \in containers
    /\ rendered[view] # RenderKind(currently_dragged, ViewWindow(view))
    /\ rendered' = Rerendered(rendered, {view}, currently_dragged)
    /\ op' = [name |-> "render"]
    /\ notified' = <<>>
    /\ notify_saw' = "-"
    /\ UNCHANGED <<currently_dragged, containers, alive, invalidated, deferred,
                   pass, first_event, last_event, release, canceled_drag>>

\* cancel_dragging::<P>(cx), from an event handler of its own or from a
\* handler that runs in the dispatch pass of a release
cancel_dragging(P) ==
    /\ pass \in {"none", "dispatch"}
    /\ IF CancelApplies(currently_dragged, P)
       THEN /\ currently_dragged' = Canceled
            /\ Notify(currently_dragged.window_id)
            /\ Saw(CancelNotifyStore(currently_dragged, currently_dragged'))
            /\ SessionEvents(None)
       ELSE /\ NoNotify
            /\ UNCHANGED <<currently_dragged, first_event, last_event, canceled_drag>>
    /\ op' = [name |-> "cancel_dragging", P |-> P]
    /\ UNCHANGED <<alive, deferred, pass>>

\* a left-button release delivered to window_id: every element render()
\* returned to a view of that window gets on_up (release inside it) or
\* on_up_out (release outside it); both defer the same callback (lines
\* 160-176, 199-214)
mouse_up(window_id) ==
    /\ Settled
    /\ LET elements == {c \in alive : ViewWindow(c) = window_id
                                       /\ rendered[c] # "none"}
           n == Cardinality(elements)
           sw == IF IsDragging(currently_dragged)
                 THEN currently_dragged.window_id ELSE 0
       IN /\ \E order \in [1..n -> elements] :
                /\ \A i, j \in 1..n : order[i] = order[j] => i = j
                /\ deferred' = [i \in 1..n |-> Callback(rendered[order[i]])]
          /\ release' = [tag |-> currently_dragged.tag,
                         session_window |-> sw,
                         window_id |-> window_id,
                         queued |-> deferred',
                         live |-> {c \in containers \cap alive : ViewWindow(c) = sw},
                         passes |-> <<>>]
    /\ currently_dragged' = OnUpState(currently_dragged, deferred')
    /\ pass' = "dispatch"
    /\ op' = [name |-> "mouse_up", window_id |-> window_id]
    /\ notified' = <<>>
    /\ notify_saw' = "-"
    /\ UNCHANGED <<containers, alive, rendered, invalidated,
                   first_event, last_event, canceled_drag>>

\* the dispatch pass is over: the deferred callbacks start to run
flush_effects ==
    /\ pass = "dispatch"
    /\ pass' = "flush"
    /\ op' = [name |-> "flush_effects"]
    /\ notified' = <<>>
    /\ notify_saw' = "-"
    /\ UNCHANGED <<currently_dragged, containers, alive, rendered, invalidated,
                   deferred, first_event, last_event, release, canceled_drag>>

\* the overlay's deferred callback: this.finish_dragging(cx)
finish_dragging ==
    /\ pass = "flush"
    /\ deferred # <<>>
    /\ Head(deferred) = "finish"
    /\ deferred' = Tail(deferred)
    /\ currently_dragged' = FinishState(currently_dragged)
    /\ SessionEvents(None)
    /\ IF FinishNotifies(currently_dragged) # 0
       THEN /\ Notify(FinishNotifies(currently_dragged))
            /\ Saw(FinishNotifyStore(currently_dragged, currently_dragged'))
       ELSE NoNotify
    /\ op' = [name |-> "finish_dragging"]
    /\ UNCHANGED <<alive, pass>>

\* the capture element's deferred callback: this.currently_dragged = None
clear_canceled ==
    /\ pass = "flush"
    /\ deferred # <<>>
    /\ Head(deferred) = "clear"
    /\ deferred' = Tail(deferred)
    /\ currently_dragged' = ClearState(currently_dragged)
    /\ SessionEvents(None)
    /\ NoNotify
    /\ op' = [name |-> "clear_canceled"]
    /\ UNCHANGED <<alive, pass>>

\* every deferred callback has run: the views notified meanwhile re-render
end_pass ==
    /\ pass = "flush"
    /\ deferred = <<>>
    /\ pass' = "none"
    /\ rendered' = Rerendered(rendered, invalidated, currently_dragged)
    /\ invalidated' = {}
    /\ release' = NoRelease
    /\ op' = [name |-> "end_pass"]
    /\ notified' = <<>>
    /\ notify_saw' = "-"
    /\ UNCHANGED <<currently_dragged, containers, alive, deferred, first_event,
                   last_event, canceled_drag>>

\* a view is dropped: its handle no longer upgrades, its elements are gone
drop_view(view) ==
    /\ Settled
    /\ view \in alive
    /\ alive' = alive \ {view}
    /\ rendered' = [rendered EXCEPT ![view] = "none"]
    /\ op' = [name |-> "drop_view"]
    /\ notified' = <<>>
    /\ notify_saw' = "-"
    /\ UNCHANGED <<currently_dragged, containers, invalidated, deferred, pass,
                   first_event, last_event, release, canceled_drag>>

Next ==
    \/ \E handle \in Views : register_container(handle)
    \/ \E window_id \in Windows, event \in Events, d \in Draggables :
          dragging(window_id, event, d.payload, d.render)
    \/ \E view \in Views : render(view)
    \/ \E P \in Types : cancel_dragging(P)
    \/ \E window_id \in Windows : mouse_up(window_id)
    \/ flush_effects
    \/ finish_dragging
    \/ clear_canceled
    \/ end_pass
    \/ \E view \in Views : drop_view(view)

Spec == Init /\ [][Next]_vars

\* the framework runs every deferred callback once the dispatch pass is over
\* and then re-renders; input events may or may not come
FairSpec ==
    /\ Spec
    /\ WF_vars(flush_effects)
    /\ WF_vars(finish_dragging)
    /\ WF_vars(clear_canceled)
    /\ WF_vars(end_pass)

\* ---------------------------------------------------------------- claims

\* the requested types: the payload types and one no payload has
QueryTypes == Types \cup {"C"}

\* the live registered containers of a window
LiveContainersOf(window_id) ==
    {c \in containers \cap alive : ViewWindow(c) = window_id}

\* the deferred callbacks of the release being processed have all run
ReleaseDone == pass = "flush" /\ deferred = <<>>

\* C1: currently_dragged<T>(w) returns a value exactly when the state is
\* Dragging, the session's window is w and the payload's runtime type is T;
\* the value is the session's position with the session's own payload; in
\* every other case the result is None.
C1_CurrentlyDraggedIff ==
    \A w \in Windows, T \in QueryTypes :
        LET r == CurrentlyDragged(currently_dragged, T, w)
        IN IF /\ IsDragging(currently_dragged)
              /\ currently_dragged.window_id = w
              /\ currently_dragged.payload.type = T
           THEN r = [tag |-> "Some", position |-> currently_dragged.position,
                     payload |-> currently_dragged.payload]
           ELSE r = None

\* C1 witness: a Dragging session that answers its own window and type and
\* refuses the other window and another type
C1_Witness ==
    /\ IsDragging(currently_dragged)
    /\ \E w \in Windows, T \in QueryTypes :
          /\ CurrentlyDragged(currently_dragged, T, w) # None
          /\ \E w2 \in Windows \ {w} :
                CurrentlyDragged(currently_dragged, T, w2) = None
          /\ \E T2 \in QueryTypes \ {T} :
                CurrentlyDragged(currently_dragged, T2, w) = None

\* C2: while a session lives, region_offset and region are the ones computed
\* from the event that created it (region origin minus previous mouse
\* position, and the region), and position is the latest event's position.
C2_RegionFromFirstEvent ==
    IsDragging(currently_dragged) =>
        /\ first_event # None
        /\ last_event # None
        /\ currently_dragged.region_offset =
               VSub(first_event.region.origin, first_event.prev_mouse_position)
        /\ currently_dragged.region = first_event.region
        /\ currently_dragged.position = last_event.position

\* C2 witness: a session that took a later event differing from its first
C2_Witness ==
    /\ IsDragging(currently_dragged)
    /\ op.name = "dragging"
    /\ first_event # last_event
    /\ first_event.region # last_event.region
    /\ currently_dragged.position # first_event.position

\* C3: cancel_dragging<P> makes the state Canceled and notifies the live
\* containers of the session's window exactly when the state is Dragging
\* with a payload of type P; otherwise it changes no state and notifies
\* nobody.
C3_CancelIffTypeMatches ==
    [][op'.name = "cancel_dragging" =>
          IF /\ IsDragging(currently_dragged)
             /\ currently_dragged.payload.type = op'.P
          THEN /\ currently_dragged' = Canceled
               /\ notified' = <<[window_id |-> currently_dragged.window_id,
                                 views |-> LiveContainersOf(
                                               currently_dragged.window_id)]>>
          ELSE /\ currently_dragged' = currently_dragged
               /\ notified' = <<>>]_vars

\* C3 witness: a cancel took effect and notified a live container
C3_Witness ==
    /\ op.name = "cancel_dragging"
    /\ currently_dragged = Canceled
    /\ Len(notified) = 1
    /\ notified[1].views # {}

C5_ReleaseWhileCanceled ==
    (/\ ReleaseDone
     /\ release.tag = "Canceled"
     /\ release.queued # <<>>)
    => /\ currently_dragged = None
       /\ release.passes = <<>>
       /\ \A w \in Windows, T \in QueryTypes :
             CurrentlyDragged(currently_dragged, T, w) = None

\* C5 witness: the capture element took the release of a canceled drag
C5_Witness ==
    /\ ReleaseDone
    /\ release.tag = "Canceled"
    /\ release.queued = <<"clear">>
    /\ op.name = "clear_canceled"
    /\ currently_dragged = None

\* C6: while the state is Canceled a call to dragging leaves it Canceled.
C6_DraggingWhileCanceled ==
    [][(currently_dragged = Canceled /\ op'.name = "dragging")
          => currently_dragged' = Canceled]_vars

\* C6 witness: dragging was called on a canceled drag
C6_Witness ==
    /\ op.name = "dragging"
    /\ currently_dragged = Canceled

\* C7: a dragging call from another window than the session's leaves the
\* session unchanged; the session's window_id never changes.
C7_OtherWindowIgnored ==
    [][(/\ IsDragging(currently_dragged)
        /\ op'.name = "dragging"
        /\ op'.window_id # currently_dragged.window_id)
          => currently_dragged' = currently_dragged]_vars

\* C8: a dragging call from the session's window keeps the session's payload
\* and render function, whatever payload the call carries.
C8_PayloadAndRenderKept ==
    [][(/\ IsDragging(currently_dragged)
        /\ op'.name = "dragging"
        /\ op'.window_id = currently_dragged.window_id)
          => /\ IsDragging(currently_dragged')
             /\ currently_dragged'.payload = currently_dragged.payload
             /\ currently_dragged'.render = currently_dragged.render]_vars

\* C9: finish_dragging run on a state that is not Dragging changes no state
\* (Canceled stays Canceled) and notifies nobody.
C9_StaleFinishIsNoOp ==
    [][(op'.name = "finish_dragging" /\ ~IsDragging(currently_dragged))
          => /\ currently_dragged' = currently_dragged
             /\ notified' = <<>>]_vars

\* C10: the capture element's callback run on a state that is not Canceled
\* changes no state (a live session is not cleared) and notifies nobody.
C10_StaleClearIsNoOp ==
    [][(op'.name = "clear_canceled" /\ currently_dragged # Canceled)
          => /\ currently_dragged' = currently_dragged
             /\ notified' = <<>>]_vars

\* C11: render for a view of window w depends on the drag state only and
\* leaves the store alone: nothing when Idle or when Dragging in another
\* window, an overlay anchored at position + region_offset with the region's
\* width and height when Dragging in w, a zero-size capture element when
\* Canceled.
C11_RenderIsFunctionOfState ==
    [][/\ \A w \in Windows :
             LET r == RenderOutput(currently_dragged', w)
             IN CASE currently_dragged' = None -> r = None
                  [] currently_dragged' = Canceled ->
                        /\ r # None
                        /\ r.kind = "capture"
                        /\ r.width = 0
                        /\ r.height = 0
                  [] OTHER ->
                        IF currently_dragged'.window_id # w
                        THEN r = None
                        ELSE /\ r # None
                             /\ r.kind = "overlay"
                             /\ r.anchor[1] = currently_dragged'.position[1]
                                     + currently_dragged'.region_offset[1]
                             /\ r.anchor[2] = currently_dragged'.position[2]
                                     + currently_dragged'.region_offset[2]
                             /\ r.width = currently_dragged'.region.size[1]
                             /\ r.height = currently_dragged'.region.size[2]
       /\ op'.name = "render" =>
             /\ currently_dragged' = currently_dragged
             /\ containers' = containers
             /\ \A c \in Views :
                   rendered'[c] # rendered[c] =>
                       rendered'[c] =
                           CASE currently_dragged = None -> "none"
                             [] currently_dragged = Canceled -> "capture"
                             [] OTHER ->
                                  IF currently_dragged.window_id = ViewWindow(c)
                                  THEN "overlay" ELSE "none"]_vars

\* C11 witness: a view re-rendered on a Dragging session of its window and
\* got the overlay, anchored off the pointer; the other window gets nothing
C11_Witness ==
    /\ op.name = "render"
    /\ IsDragging(currently_dragged)
    /\ \E c \in Views : /\ rendered[c] = "overlay"
                        /\ ViewWindow(c) = currently_dragged.window_id
    /\ RenderOutput(currently_dragged, currently_dragged.window_id).anchor
           # currently_dragged.position
    /\ \E w \in Windows : RenderOutput(currently_dragged, w) = None

\* C12: register_container is idempotent: after registering a handle the
\* registry is the old one plus that handle, held once; registering a handle
\* that is already registered changes nothing, so a pass notifies it once.
C12_RegisterIdempotent ==
    [][op'.name = "register_container" =>
          /\ containers' = containers \cup {op'.handle}
          /\ Cardinality({c \in containers' : c = op'.handle}) = 1
          /\ op'.handle \in containers =>
                /\ containers' = containers
                /\ Cardinality(containers') = Cardinality(containers)
          /\ op'.handle \notin containers =>
                Cardinality(containers') = Cardinality(containers) + 1]_vars

\* C12 witness: a container that had rendered, so was registered, registered
\* again, beside another registered container
C12_Witness ==
    /\ op.name = "register_container"
    /\ rendered[op.handle] # "none"
    /\ Cardinality(containers) >= 2

\* C13: the release callbacks do not touch the store while the release is
\* being dispatched: the step that delivers the release changes neither the
\* state nor the registry, finish_dragging and the clearing run only once
\* the dispatch pass is over, and during the dispatch pass of a release
\* taken while Dragging (no cancel so far) a handler still gets the session
\* from currently_dragged.
C13_ReleaseCallbacksDeferred ==
    [][/\ op'.name = "mouse_up" =>
             /\ currently_dragged' = currently_dragged
             /\ containers' = containers
       /\ op'.name \in {"finish_dragging", "clear_canceled"} => pass = "flush"
       /\ (/\ pass' = "dispatch"
           /\ release'.tag = "Dragging"
           /\ release'.passes = <<>>)
          => /\ IsDragging(currently_dragged')
             /\ CurrentlyDragged(currently_dragged',
                                 currently_dragged'.payload.type,
                                 release'.session_window) # None]_vars

\* C13 witness: the release reached an overlay of the session's window, its
\* finish_dragging is queued, and the session is still there to be queried
C13_Witness ==
    /\ pass = "dispatch"
    /\ op.name = "mouse_up"
    /\ release.tag = "Dragging"
    /\ release.window_id = release.session_window
    /\ deferred # <<>>
    /\ Head(deferred) = "finish"
    /\ IsDragging(currently_dragged)
    /\ CurrentlyDragged(currently_dragged, currently_dragged.payload.type,
                        release.window_id) # None

\* C14: every call to dragging makes one notification pass, to the live
\* containers of the event's own window, whatever the state is, and the pass
\* runs on the drag state as the call found it.
C14_DraggingNotifiesFirst ==
    [][op'.name = "dragging" =>
          /\ notified' = <<[window_id |-> op'.window_id,
                            views |-> LiveContainersOf(op'.window_id)]>>
          /\ notify_saw' = "unchanged"]_vars

\* C14 witness: a dragging call on a canceled drag still notified a live
\* container of its window
C14_Witness ==
    /\ op.name = "dragging"
    /\ currently_dragged = Canceled
    /\ Len(notified) = 1
    /\ notified[1].views # {}
    /\ notify_saw = "unchanged"

\* C15: finish_dragging on a Dragging session notifies the containers while
\* the store still holds the session, and clears the state afterwards.
C15_FinishNotifiesBeforeClearing ==
    [][(op'.name = "finish_dragging" /\ IsDragging(currently_dragged))
          => /\ Len(notified') = 1
             /\ notify_saw' = "unchanged"]_vars

\* C16: a notification pass for window w notifies exactly the registered
\* containers that are alive and belong to w, removes every dead container
\* from the registry, whatever its window, and keeps every live one, those
\* of other windows included, which are not notified.
C16_PassNotifiesAndPrunes ==
    [][Len(notified') = 1 =>
          /\ notified'[1].views =
                 {c \in Views : /\ c \in containers
                                /\ c \in alive
                                /\ ViewWindow(c) = notified'[1].window_id}
          /\ containers' = {c \in containers : c \in alive}]_vars

\* C16 witness: a pass notified a container, kept an un-notified live
\* container of the other window, and left a dead view out of the registry
C16_Witness ==
    /\ Len(notified) = 1
    /\ notified[1].views # {}
    /\ \E c \in containers \cap alive : ViewWindow(c) # notified[1].window_id
    /\ \E c \in Views \ alive : c \notin containers

\* C17: the drag state only takes the steps Idle to Dragging, Dragging to
\* Dragging, Dragging to Canceled, Dragging to Idle and Canceled to Idle (or
\* stays as it is); Canceled is entered only from Dragging, by a cancel of
\* the payload's type.
C17_StateMachine ==
    [][/\ <<currently_dragged.tag, currently_dragged'.tag>> \in
              {<<"None", "None">>, <<"None", "Dragging">>,
               <<"Dragging", "Dragging">>, <<"Dragging", "Canceled">>,
               <<"Dragging", "None">>, <<"Canceled", "Canceled">>,
               <<"Canceled", "None">>}
       /\ (currently_dragged'.tag = "Canceled"
           /\ currently_dragged.tag # "Canceled")
          => /\ IsDragging(currently_dragged)
             /\ op'.name = "cancel_dragging"
             /\ op'.P = currently_dragged.payload.type
       /\ (currently_dragged.tag = "None" /\ currently_dragged'.tag = "Dragging")
          => op'.name = "dragging"]_vars

\* C17 witness: a handler canceled the drag during the dispatch of a release
\* that found it Dragging
C17_Witness ==
    /\ op.name = "cancel_dragging"
    /\ currently_dragged = Canceled
    /\ pass = "dispatch"
    /\ release.tag = "Dragging"

\* the release of a canceled drag: delivered to the window of the canceled
\* session while a container the cancel notified is still alive
ReleaseOfCanceled ==
    /\ pass = "dispatch"
    /\ op.name = "mouse_up"
    /\ release.tag = "Canceled"
    /\ canceled_drag # None
    /\ release.window_id = canceled_drag.window_id
    /\ canceled_drag.views \cap alive # {}

\* C18: when a drag of window W was canceled and a live registered container
\* of W was notified of it, the next release in W leads, once the deferred
\* callbacks have run, to Idle with no release in progress, where a dragging
\* call can start a new session.
C18_CanceledEndsIdle ==
    ReleaseOfCanceled ~>
        (/\ currently_dragged = None
         /\ pass = "none"
         /\ ENABLED (\E w \in Windows, e \in Events, d \in Draggables :
                        dragging(w, e, d.payload, d.render)))

\* C18 witness: the release of a canceled drag reached the capture element
\* that a notified container rendered
C18_Witness ==
    /\ ReleaseOfCanceled
    /\ deferred # <<>>
    /\ Head(deferred) = "clear"

\* C19: in every Dragging state the type the stored render adapter downcasts
\* to is the runtime type of the stored payload, so the unwrap of the
\* downcast cannot fail; this also holds after a continuation call that
\* carried a payload of another type.
C19_RenderMatchesPayload ==
    IsDragging(currently_dragged) =>
        currently_dragged.render.T = currently_dragged.payload.type

\* C19 witness: a session that a later dragging call continued holds a
\* payload of type B with the adapter made for B in that call, and a view of
\* its window renders the overlay from them
C19_Witness ==
    /\ IsDragging(currently_dragged)
    /\ op.name = "dragging"
    /\ first_event # last_event
    /\ \E c \in alive :
          /\ rendered[c] = "overlay"
          /\ ViewWindow(c) = currently_dragged.window_id
    /\ notify_saw = "unchanged"
    /\ currently_dragged.render.T = currently_dragged.payload.type
    /\ currently_dragged.payload.type = "B"
    /\ currently_dragged.render.fn = "B"

\* C20: when a release reached an overlay, so that a finish_dragging is
\* queued, and the session was canceled in the same dispatch pass, every
\* deferred callback of the release leaves the store Idle and makes no
\* notification pass, and the only notification pass of the release is the
\* one the cancel made to the session's window.
C20_FinishAfterCancel ==
    [][(/\ pass = "flush"
        /\ deferred # <<>>
        /\ release.tag = "Dragging"
        /\ \E i \in DOMAIN release.queued : release.queued[i] = "finish"
        /\ ~IsDragging(currently_dragged))
       => (/\ currently_dragged' = None
           /\ notified' = <<>>
           /\ release'.passes = release.passes
           /\ currently_dragged = Canceled =>
                 /\ Len(release.passes) = 1
                 /\ release.passes[1].window_id = release.session_window)]_vars

\* C20 witness: the one callback of the release was the overlay's
\* finish_dragging, it made no notification pass, and the release saw one
\* pass: the one of the cancel
C20_Witness ==
    /\ ReleaseDone
    /\ op.name = "finish_dragging"
    /\ release.tag = "Dragging"
    /\ release.window_id = release.session_window
    /\ Len(release.queued) = 1
    /\ notified = <<>>
    /\ Len(release.passes) = 1
    /\ release.passes[1].window_id = release.session_window
    /\ currently_dragged = None

====
